---- MODULE Spec2Model ----
(***************************************************************************)
(* Model of the skill-data-synthesis pipeline (package skill_synth):       *)
(*   - Synthesizer.synthesize_all / _synthesize_one / _parse_result        *)
(*   - LLMQualityFilter.filter (the LLM-as-judge stage)                    *)
(*   - Pipeline.run (stage sequencing and the client's close())            *)
(* Text is a sequence of characters, so that trimming is computed.         *)
(* Scores are in hundredths (3.5 is 350); None is the value -1.            *)
(***************************************************************************)
EXTENDS Integers, Sequences, FiniteSets, TLC

VARIABLES
    cfg,          \* the configuration values the stages read (immutable)
    skills,       \* the skills handed to synthesize_all
    items,        \* one record per work item (coroutine) of synthesize_all
    sem,          \* Synthesizer._sem: free permits
    doneq,        \* work items finished and not yet taken by as_completed
    all_samples,  \* synthesize_all: all_samples
    completed,    \* the progress bar's completed counter
    synth_pc,     \* where synthesize_all is
    p_in,         \* one work item alone: skill, strategy, outcome of its call
    p_out,        \* one work item alone: what _synthesize_one returned
    p_pc,         \* one work item alone: "call" or "done"
    j_samples,    \* LLMQualityFilter.filter: the sample objects it was given
    to_evaluate,  \* the positions in j_samples picked for grading
    tasks,        \* one record per position: the grading task _evaluate
    jsem,         \* the semaphore of filter: free permits
    judge_pc,     \* where filter is
    j_ret,        \* what filter returned: retained positions, statistics
    pipe_pc,      \* where Pipeline.run is
    dry_run,      \* run(dry_run=...)
    limit,        \* run(limit=...), 0 for None
    llm,          \* the LLM client of the run: "none", "open", "closed"
    closes,       \* how many times close() was invoked on the client
    pending,      \* the exception on its way out of run, "none" without one
    run_samples,  \* run: samples after the judge stage
    stats,        \* run: stats
    written,      \* how many times the writer was invoked
    collectors,   \* collect_all: what collect() of each collector does
    c_results,    \* collect_all: one record per collector, the task _run
    collect_pc,   \* where collect_all is
    unique,       \* collect_all: the list it returned
    f_in,         \* one function alone: its arguments
    f_out,        \* one function alone: what it returned or raised
    f_pc,         \* one function alone: "call" or "done"
    hung          \* the work items whose LLM call never returns

synthVars == <<skills, items, sem, doneq, all_samples, completed, synth_pc>>
parseVars == <<p_in, p_out, p_pc>>
judgeVars == <<j_samples, to_evaluate, tasks, jsem, judge_pc, j_ret>>

pipeVars == <<pipe_pc, dry_run, limit, llm, closes, pending, run_samples, stats, written>>
collectVars == <<collectors, c_results, collect_pc, unique>>
fnVars == <<f_in, f_out, f_pc>>

(* what the stages of a run never write *)
otherVars == <<parseVars, collectVars, fnVars, hung>>

vars == <<cfg, synthVars, parseVars, judgeVars, pipeVars, collectVars, fnVars, hung>>

----------------------------------------------------------------------------
(* Bounds of the model *)
MaxSkills == 3
MaxStrategies == 2
MaxItems == 3
MaxConcurrency == 2
MaxEntries == 2
MaxSamples == 6
MaxCollectors == 3
MaxBatch == 3

----------------------------------------------------------------------------
(* Python values *)
None == -1

SeqsUpTo(S, n) == UNION {[1..k -> S] : k \in 0..n}

RECURSIVE SumOver(_, _)
SumOver(f, S) == IF S = {} THEN 0
                 ELSE LET x == CHOOSE y \in S : TRUE
                      IN f[x] + SumOver(f, S \ {x})

Count(seq, x) == Cardinality({k \in DOMAIN seq : seq[k] = x})

(* str.strip(): drop leading and trailing whitespace *)
NL == "\n"
IsSpace(c) == c \in {" ", NL}

RECURSIVE LStrip(_)
LStrip(t) == IF t # <<>> /\ IsSpace(Head(t)) THEN LStrip(Tail(t)) ELSE t

RECURSIVE RStrip(_)
RStrip(t) == IF t # <<>> /\ IsSpace(t[Len(t)])
             THEN RStrip(SubSeq(t, 1, Len(t) - 1)) ELSE t

Strip(t) == RStrip(LStrip(t))

(* str.lower() *)
LowerChar(c) ==
    CASE c = "A" -> "a"
      [] c = "B" -> "b"
      [] c = "Q" -> "q"
      [] OTHER -> c
Lower(t) == [k \in DOMAIN t |-> LowerChar(t[k])]

----------------------------------------------------------------------------
(* models.py *)
SynthesisStrategy == {"direct_task", "scenario_based", "conversation", "edge_case"}

(* an id that hashes the content as it is *)
SkillIdExact(skill) == skill.content

(* Skill.id: the hash of the trimmed, lower-cased content, taken as        *)
(* collision free, so the normalized content stands for its hash.          *)
SkillId(skill) == Lower(Strip(skill.content))

(* prompts.py: the strategies that have a template *)
STRATEGY_PROMPTS == {"direct_task", "scenario_based", "conversation", "edge_case"}

----------------------------------------------------------------------------
(* JSON values an LLM response can hold.                                   *)
(* A field of an entry: absent, a string s, a number or null.              *)
JAbsent == [k |-> "absent", s |-> <<>>]
JStr(t) == [k |-> "str", s |-> t]
JNum == [k |-> "num", s |-> <<>>]
JNull == [k |-> "null", s |-> <<>>]

(* An entry of the sequence: a key-value record, or something else.        *)
Rec(i, r, d) == [t |-> "rec", instruction |-> i, response |-> r, difficulty |-> d]
NonRec == [t |-> "str", instruction |-> JAbsent, response |-> JAbsent,
           difficulty |-> JAbsent]

(* The outcome of generate_json: an exception of the call, or a value.     *)
Outcome(kind, its) == [t |-> kind, items |-> its]
CallErrors == {"ProviderError", "MalformedResponseError"}
NoOutcome == Outcome("none", <<>>)

(* dict.get(key, default) followed by .strip(): a string is trimmed, an    *)
(* absent key gives the default "", a number or null has no strip().       *)
GetStripRaises(f) == f.k \in {"num", "null"}
GetStrip(f) == IF f.k = "str" THEN Strip(f.s) ELSE <<>>

(* TrainingSample(...): difficulty must be a string *)
MEDIUM == <<"m">>
DifficultyRaises(f) == f.k \in {"num", "null"}
Difficulty(f) == IF f.k = "absent" THEN MEDIUM ELSE f.s

(* a sample that carries the content of the skill where its id belongs *)
TrainingSampleContentAsId(instruction, response, skill, strategy, difficulty) ==
    [instruction |-> instruction, response |-> response,
     skill_id |-> skill.content, strategy |-> strategy,
     difficulty |-> difficulty, quality_score |-> None,
     skill_name |-> skill.name]

TrainingSample(instruction, response, skill, strategy, difficulty) ==
    [instruction |-> instruction, response |-> response,
     skill_id |-> SkillId(skill), strategy |-> strategy,
     difficulty |-> difficulty, quality_score |-> None,
     skill_name |-> skill.name]

(* The loop of _parse_result over the entries: the samples built so far,   *)
(* or the exception that ended the loop.                                   *)
RECURSIVE ParseItems(_, _, _, _)
ParseItems(its, skill, strategy, acc) ==
    IF its = <<>> THEN [exc |-> "none", samples |-> acc]
    ELSE LET item == Head(its) IN
         IF item.t # "rec" THEN ParseItems(Tail(its), skill, strategy, acc)
         ELSE IF GetStripRaises(item.instruction) \/ GetStripRaises(item.response)
         THEN [exc |-> "AttributeError", samples |-> <<>>]
         ELSE IF GetStrip(item.instruction) = <<>> \/ GetStrip(item.response) = <<>>
         THEN ParseItems(Tail(its), skill, strategy, acc)
         ELSE IF DifficultyRaises(item.difficulty)
         THEN [exc |-> "ValidationError", samples |-> <<>>]
         ELSE ParseItems(Tail(its), skill, strategy,
                         Append(acc, TrainingSample(GetStrip(item.instruction),
                                                    GetStrip(item.response),
                                                    skill, strategy,
                                                    Difficulty(item.difficulty))))

(* a parser that forgot the bare sequence *)
ParseResultDictOnly(result, skill, strategy) ==
    CASE result.t = "dict_samples_list" -> ParseItems(result.items, skill, strategy, <<>>)
      [] result.t = "dict_samples_num"  -> [exc |-> "TypeError", samples |-> <<>>]
      [] result.t = "dict_samples_null" -> [exc |-> "TypeError", samples |-> <<>>]
      [] OTHER                          -> [exc |-> "none", samples |-> <<>>]

(* Synthesizer._parse_result *)
ParseResult(result, skill, strategy) ==
    CASE result.t = "dict_samples_list" -> ParseItems(result.items, skill, strategy, <<>>)
      [] result.t = "dict_no_samples"   -> [exc |-> "none", samples |-> <<>>]
      [] result.t = "dict_samples_str"  -> [exc |-> "none", samples |-> <<>>]
      [] result.t = "dict_samples_num"  -> [exc |-> "TypeError", samples |-> <<>>]
      [] result.t = "dict_samples_null" -> [exc |-> "TypeError", samples |-> <<>>]
      [] result.t = "list"              -> ParseItems(result.items, skill, strategy, <<>>)
      [] OTHER                          -> [exc |-> "none", samples |-> <<>>]

(* a handler that catches the errors of the call only *)
CatchesCallErrorsOnly(exc) == exc \in CallErrors

(* except Exception: every exception of the call or of the parsing *)
Catches(exc) == TRUE

(* The body of _synthesize_one after generate_json has returned or raised  *)
SynthesizeOneBody(outcome, skill, strategy) ==
    LET r == IF outcome.t \in CallErrors
             THEN [exc |-> outcome.t, samples |-> <<>>]
             ELSE ParseResult(outcome, skill, strategy)
    IN IF r.exc # "none" /\ Catches(r.exc)
       THEN [exc |-> "none", samples |-> <<>>]
       ELSE r

----------------------------------------------------------------------------
(* Inputs of the model *)
(* the skills of a run: two of them differ only in case and blanks *)
SkillList == <<[name |-> "s1", content |-> <<" ", "A">>],
               [name |-> "s2", content |-> <<"b">>],
               [name |-> "s3", content |-> <<"a", " ">>],
               [name |-> "s4", content |-> <<"B">>]>>

SkillLists == {SubSeq(SkillList, 1, k) : k \in 0..MaxSkills}

StrategyNames == {"direct_task", "edge_case", "unknown"}

StrategyCfg(nm) == [name |-> nm, samples_per_skill |-> 3]

(* Entries an LLM writes into its answer *)
TextQ == <<" ", "Q">>
TextR == <<"Q", " ", "Q">>
TextA == <<"A", " ">>
Good1 == Rec(JStr(TextQ), JStr(TextA), JAbsent)
Good2 == Rec(JStr(TextR), JStr(TextA), JStr(<<"h">>))
EmptyInstruction == Rec(JStr(<<>>), JStr(TextA), JAbsent)
NumInstruction == Rec(JNum, JStr(TextA), JAbsent)

(* What the backend answers to a synthesis call *)
SynthOutcomes ==
    {Outcome("ProviderError", <<>>), Outcome("MalformedResponseError", <<>>),
     Outcome("dict_samples_list", <<Good1, EmptyInstruction>>),
     Outcome("dict_samples_list", <<Good1, Good2>>),
     Outcome("dict_samples_list", <<Good1, NumInstruction>>),
     Outcome("list", <<Good1>>),
     Outcome("dict_no_samples", <<>>),
     Outcome("dict_samples_num", <<>>),
     Outcome("scalar", <<>>)}

----------------------------------------------------------------------------
(* Synthesizer *)
NumItems == Len(items)

(* a work item whose call failed: the call raised, or the parsing did *)
Failing(outcome, skill, strategy) ==
    \/ outcome.t \in CallErrors
    \/ ParseResult(outcome, skill, strategy).exc # "none"

(* prompt_template.format(skill_content=..., n=...): every template holds  *)
(* {n} and {skill_content} once each; the rendered text is told by the     *)
(* template and the two values put into it                                 *)
SKILL_CONTENT_MAX == 3000

Truncate(t, n) == IF Len(t) <= n THEN t ELSE SubSeq(t, 1, n)

Format(template, skill_content, n) ==
    [template |-> template, n |-> n, skill_content |-> skill_content]

SYSTEM_FRAMING ==
    "You are a training data generation expert. Always respond with valid JSON."

Message(role, content) == [role |-> role, content |-> content]

NoCall == [messages |-> <<>>, temperature |-> None, max_tokens |-> None]

(* _synthesize_one: the arguments of self._llm.generate_json *)
GenerateJsonArgs(config, skill, strategy_name, n_samples) ==
    [messages |-> <<Message("system", SYSTEM_FRAMING),
                    Message("user", Format(strategy_name,
                                           Truncate(skill.content, SKILL_CONTENT_MAX),
                                           n_samples))>>,
     temperature |-> config.temperature,
     max_tokens |-> 2048]

(* synthesize_all, up to the first await: the coroutines of the cross      *)
(* product skills x strategies, skill-major; with no work item the loop    *)
(* body never runs and all_samples is returned at once.                    *)
WorkItems(sk, strategies) ==
    [k \in 1..(Len(sk) * Len(strategies)) |->
        [skill |-> ((k - 1) \div Len(strategies)) + 1,
         strategy |-> strategies[((k - 1) % Len(strategies)) + 1].name,
         n |-> strategies[((k - 1) % Len(strategies)) + 1].samples_per_skill,
         st |-> "waiting", exc |-> "none", samples |-> <<>>, failed |-> FALSE,
         call |-> NoCall]]

SynthStart ==
    /\ synth_pc = "idle"
    /\ items' = WorkItems(skills, cfg.strategies)
    /\ all_samples' = <<>>
    /\ completed' = 0
    /\ doneq' = <<>>
    /\ synth_pc' = IF Len(skills) * Len(cfg.strategies) = 0 THEN "returned" ELSE "running"
    /\ UNCHANGED <<cfg, skills, sem, otherVars, judgeVars, pipeVars>>

(* a semaphore that admits everyone *)
SemAlwaysAvailable(s) == TRUE

(* _synthesize_one: async with self._sem; a strategy without a template    *)
(* returns [] and gives the permit back, otherwise generate_json is sent.  *)
SemAvailable(s) == s > 0

SynthAcquire(i) ==
    /\ synth_pc \in {"running", "raised"}
    /\ items[i].st = "waiting"
    /\ SemAvailable(sem)
    /\ IF items[i].strategy \notin STRATEGY_PROMPTS
       THEN /\ items' = [items EXCEPT ![i].st = "finished"]
            /\ doneq' = Append(doneq, i)
            /\ sem' = sem
       ELSE /\ items' = [items EXCEPT ![i].st = "calling",
                                      ![i].call = GenerateJsonArgs(cfg, skills[items[i].skill],
                                                                   items[i].strategy,
                                                                   items[i].n)]
            /\ doneq' = doneq
            /\ sem' = sem - 1
    /\ UNCHANGED <<cfg, skills, all_samples, completed, synth_pc, otherVars, judgeVars, pipeVars>>

(* a work item that takes its permit without ever giving it back *)
SynthCallReturnsKeepsPermit(i, outcome) ==
    /\ synth_pc \in {"running", "raised"}
    /\ items[i].st = "calling"
    /\ i \notin hung
    /\ LET r == SynthesizeOneBody(outcome, skills[items[i].skill], items[i].strategy)
       IN items' = [items EXCEPT ![i].st = "finished",
                                 ![i].exc = r.exc,
                                 ![i].samples = r.samples,
                                 ![i].failed = Failing(outcome, skills[items[i].skill],
                                                       items[i].strategy)]
    /\ sem' = sem
    /\ doneq' = Append(doneq, i)
    /\ UNCHANGED <<cfg, skills, all_samples, completed, synth_pc, otherVars, judgeVars, pipeVars>>

(* generate_json returns or raises; the rest of _synthesize_one runs to    *)
(* its return without suspending, and the permit is given back. The call   *)
(* of a work item in hung never returns.                                   *)
SynthCallReturns(i, outcome) ==
    /\ synth_pc \in {"running", "raised"}
    /\ items[i].st = "calling"
    /\ i \notin hung
    /\ LET r == SynthesizeOneBody(outcome, skills[items[i].skill], items[i].strategy)
       IN items' = [items EXCEPT ![i].st = "finished",
                                 ![i].exc = r.exc,
                                 ![i].samples = r.samples,
                                 ![i].failed = Failing(outcome, skills[items[i].skill],
                                                       items[i].strategy)]
    /\ sem' = sem + 1
    /\ doneq' = Append(doneq, i)
    /\ UNCHANGED <<cfg, skills, all_samples, completed, synth_pc, otherVars, judgeVars, pipeVars>>

(* the loop over asyncio.as_completed: the next finished work item is      *)
(* awaited; its exception, if any, leaves synthesize_all; otherwise its    *)
(* samples are appended and the progress advances; after the last one      *)
(* all_samples is returned.                                                *)
SynthCollect ==
    /\ synth_pc = "running"
    /\ doneq # <<>>
    /\ LET i == Head(doneq) IN
       /\ doneq' = Tail(doneq)
       /\ items' = [items EXCEPT ![i].st = "collected"]
       /\ IF items[i].exc # "none"
          THEN /\ synth_pc' = "raised"
               /\ UNCHANGED <<all_samples, completed>>
          ELSE /\ all_samples' = all_samples \o items[i].samples
               /\ completed' = completed + 1
               /\ synth_pc' = IF completed + 1 = NumItems THEN "returned" ELSE "running"
    /\ UNCHANGED <<cfg, skills, sem, otherVars, judgeVars, pipeVars>>

NextSynth ==
    \/ SynthStart
    \/ \E i \in DOMAIN items : SynthAcquire(i)
    \/ \E i \in DOMAIN items : \E o \in SynthOutcomes : SynthCallReturns(i, o)
    \/ SynthCollect

----------------------------------------------------------------------------
(* LLMQualityFilter *)
Max(a, b) == IF a >= b THEN a ELSE b
Min(a, b) == IF a <= b THEN a ELSE b

(* int(x) of a non-negative quotient a / b: the fraction is cut off *)
IntTrunc(a, b) == a \div b

(* round(a / b, 0) for a >= 0, b > 0, a tie going to the even neighbour *)
RoundDiv(a, b) ==
    LET q == a \div b
        r == a % b
    IN IF 2 * r < b THEN q
       ELSE IF 2 * r > b THEN q + 1
       ELSE IF q % 2 = 0 THEN q ELSE q + 1

(* the cap of the semaphore made in filter *)
JUDGE_CONCURRENCY == 5

(* QualityVerdict: Field(ge=1, le=5), in hundredths *)
SCORE_MIN == 100
SCORE_MAX == 500

JudgeOutcome(kind, scores) == [t |-> kind, scores |-> scores]
NoScores == <<0, 0, 0, 0, 0>>

Sum5(sc) == sc[1] + sc[2] + sc[3] + sc[4] + sc[5]

(* an overall that cuts the mean off at two decimals *)
OverallCutOff(sc) == Sum5(sc) \div 5

(* QualityVerdict.overall: round(sum / 5, 2) *)
Overall(sc) == RoundDiv(Sum5(sc), 5)

(* QualityVerdict built from the answer: the verdict, or the exception of building it *)
QualityVerdict(result) ==
    CASE result.t \in {"list", "scalar"} -> [exc |-> "TypeError", overall |-> None]
      [] result.t = "dict_missing" -> [exc |-> "ValidationError", overall |-> None]
      [] result.t = "dict_scores" ->
            IF \A k \in 1..5 : result.scores[k] >= SCORE_MIN /\ result.scores[k] <= SCORE_MAX
            THEN [exc |-> "none", overall |-> Overall(result.scores)]
            ELSE [exc |-> "ValidationError", overall |-> None]
      [] OTHER -> [exc |-> "TypeError", overall |-> None]

(* a handler of _evaluate that catches the errors of the call only *)
JudgeCatchesCallErrorsOnly(exc) == exc \in CallErrors

(* _evaluate: except Exception *)
JudgeCatches(exc) == TRUE

(* the body of _evaluate after generate_json has returned or raised *)
EvaluateBody(outcome) ==
    LET r == IF outcome.t \in CallErrors
             THEN [exc |-> outcome.t, overall |-> None]
             ELSE QualityVerdict(outcome)
    IN IF r.exc # "none" /\ JudgeCatches(r.exc)
       THEN [exc |-> "none", overall |-> None]
       ELSE r

(* an answer that is a verdict: the five sub-scores, each within [1,5] *)
IsVerdict(outcome) ==
    /\ outcome.t = "dict_scores"
    /\ \A k \in 1..5 : outcome.scores[k] >= 100 /\ outcome.scores[k] <= 500

(* a ratio num / den; int() of a float that is not a number raises *)
IsNaN(ratio) == ratio.den = 0

(* filter: sample_count = max(1, int(len(samples) * sample_ratio)) *)
SampleCount(total, ratio) == Max(1, IntTrunc(total * ratio.num, ratio.den))

(* a judge that grades when disabled *)
PassThroughEmptyOnly(enabled, samples) == samples = <<>>

(* filter: if not self._cfg.enabled or not samples *)
PassThrough(enabled, samples) == ~enabled \/ samples = <<>>

(* the statistics bag: the keys it holds and their values *)
EmptyStats == [keys |-> {}, evaluated |-> 0, mean_score |-> 0, min_score |-> 0,
               max_score |-> 0, pass_rate |-> 0]

(* a judge that returns no statistics at all without a verdict *)
NoVerdictStatsEmpty == EmptyStats

(* filter: the statistics returned when no verdict was obtained *)
NoVerdictStats == [EmptyStats EXCEPT !.keys = {"evaluated"}]

AllPositions(samples) == [k \in DOMAIN samples |-> k]

(* the record of a sample in filter: its grading task, if it has one, and  *)
(* graders, the number of grading tasks made for it                        *)
IdleTask == [st |-> "none", verdict |-> None, exc |-> "none", ok |-> FALSE,
             graders |-> 0]

Range(seq) == {seq[k] : k \in DOMAIN seq}

(* a selection that may pick a sample more than once *)
RandomChoices(population, k) == [1..k -> population]

(* random.sample(population, k): k picks, no element picked twice *)
RECURSIVE RandomSample(_, _)
RandomSample(population, k) ==
    IF k = 0 THEN {<<>>}
    ELSE UNION {{Append(picks, x) : x \in population \ Range(picks)} :
                    picks \in RandomSample(population, k - 1)}

(* filter, up to the await of gather: the pass-through, or the random      *)
(* subset and one task per picked sample.                                  *)
JudgeStart ==
    /\ judge_pc = "idle"
    /\ IF PassThrough(cfg.enabled, j_samples)
       THEN /\ judge_pc' = "returned"
            /\ j_ret' = [samples |-> AllPositions(j_samples), stats |-> EmptyStats]
            /\ UNCHANGED <<to_evaluate, tasks, jsem>>
       ELSE IF IsNaN(cfg.sample_ratio)
       THEN /\ judge_pc' = "raised"
            /\ UNCHANGED <<to_evaluate, tasks, jsem, j_ret>>
       ELSE /\ \E picks \in RandomSample(DOMAIN j_samples,
                                         Min(SampleCount(Len(j_samples), cfg.sample_ratio),
                                             Len(j_samples))) :
                 /\ to_evaluate' = Range(picks)
                 /\ tasks' = [k \in DOMAIN j_samples |->
                                IF Count(picks, k) > 0
                                THEN [IdleTask EXCEPT !.st = "waiting",
                                                      !.graders = Count(picks, k)]
                                ELSE IdleTask]
            /\ jsem' = JUDGE_CONCURRENCY
            /\ judge_pc' = "grading"
            /\ UNCHANGED j_ret
    /\ UNCHANGED <<cfg, j_samples, synthVars, otherVars, pipeVars>>

(* _evaluate: async with sem, then generate_json is sent *)
JudgeAcquire(i) ==
    /\ judge_pc \in {"grading", "raised"}
    /\ tasks[i].st = "waiting"
    /\ jsem > 0
    /\ tasks' = [tasks EXCEPT ![i].st = "calling"]
    /\ jsem' = jsem - 1
    /\ UNCHANGED <<cfg, j_samples, to_evaluate, judge_pc, j_ret, synthVars, otherVars, pipeVars>>

(* a marking loop that writes zero for a sample graded without a verdict *)
MarkedZeroWithoutVerdict(samples, tk) ==
    [k \in DOMAIN samples |->
        IF tk[k].st = "done"
        THEN [samples[k] EXCEPT !.quality_score =
                                    IF tk[k].verdict # None THEN tk[k].verdict ELSE 0]
        ELSE samples[k]]

(* the marking loop: quality_score of every sample that has a verdict *)
Marked(samples, tk) ==
    [k \in DOMAIN samples |->
        IF tk[k].st = "done" /\ tk[k].verdict # None
        THEN [samples[k] EXCEPT !.quality_score = tk[k].verdict]
        ELSE samples[k]]

(* a judge that also drops the samples scored exactly at the threshold *)
BelowOrAtThreshold(overall, min_overall_score) == overall <= min_overall_score

(* verdict.overall < self._cfg.min_overall_score *)
BelowThreshold(overall, min_overall_score) == overall < min_overall_score

FailIds(tk, min_overall_score) ==
    {k \in DOMAIN tk : /\ tk[k].st = "done" /\ tk[k].verdict # None
                       /\ BelowThreshold(tk[k].verdict, min_overall_score)}

RECURSIVE Keep(_, _, _)
Keep(k, n, drop) ==
    IF k > n THEN <<>>
    ELSE IF k \in drop THEN Keep(k + 1, n, drop)
    ELSE <<k>> \o Keep(k + 1, n, drop)

SetMin(S) == CHOOSE x \in S : \A y \in S : x <= y
SetMax(S) == CHOOSE x \in S : \A y \in S : x >= y

(* the statistics of the verdicts obtained *)
Stats(tk, min_overall_score) ==
    LET scored == {k \in DOMAIN tk : tk[k].st = "done" /\ tk[k].verdict # None}
        total == SumOver([k \in scored |-> tk[k].verdict], scored)
        passed == Cardinality({k \in scored : tk[k].verdict >= min_overall_score})
    IN [keys |-> {"evaluated", "mean_score", "min_score", "max_score", "pass_rate"},
        evaluated |-> Cardinality(scored),
        mean_score |-> RoundDiv(total, Cardinality(scored)),
        min_score |-> SetMin({tk[k].verdict : k \in scored}),
        max_score |-> SetMax({tk[k].verdict : k \in scored}),
        pass_rate |-> RoundDiv(100 * passed, Cardinality(scored))]

(* the rest of filter once gather has every result *)
FilterTail(samples, tk, min_overall_score) ==
    IF \A k \in DOMAIN tk : ~(tk[k].st = "done" /\ tk[k].verdict # None)
    THEN [samples |-> samples,
          ret |-> [samples |-> AllPositions(samples), stats |-> NoVerdictStats]]
    ELSE [samples |-> Marked(samples, tk),
          ret |-> [samples |-> Keep(1, Len(samples), FailIds(tk, min_overall_score)),
                   stats |-> Stats(tk, min_overall_score)]]

(* generate_json returns or raises; _evaluate runs to its return and gives *)
(* the permit back. An exception that _evaluate lets through leaves gather *)
(* and filter. With the last result gather returns, and filter runs to its *)
(* return without suspending.                                              *)
JudgeCallReturns(i, outcome) ==
    /\ judge_pc \in {"grading", "raised"}
    /\ tasks[i].st = "calling"
    /\ jsem' = jsem + 1
    /\ LET r == EvaluateBody(outcome)
           tk == [tasks EXCEPT ![i] = [st |-> "done", verdict |-> r.overall,
                                       exc |-> r.exc, ok |-> IsVerdict(outcome),
                                       graders |-> tasks[i].graders]]
       IN /\ tasks' = tk
          /\ IF r.exc # "none"
             THEN /\ judge_pc' = "raised"
                  /\ UNCHANGED <<j_samples, j_ret>>
             ELSE IF judge_pc = "grading" /\ \A k \in to_evaluate : tk[k].st = "done"
             THEN /\ judge_pc' = "returned"
                  /\ j_samples' = FilterTail(j_samples, tk, cfg.min_overall_score).samples
                  /\ j_ret' = FilterTail(j_samples, tk, cfg.min_overall_score).ret
             ELSE UNCHANGED <<judge_pc, j_samples, j_ret>>
    /\ UNCHANGED <<cfg, to_evaluate, synthVars, otherVars, pipeVars>>

(* what the backend answers to a grading call *)
ScoresPass == <<400, 400, 300, 400, 300>>
ScoresFail == <<300, 400, 300, 400, 300>>
ScoresLow == <<0, 400, 400, 400, 400>>
ScoresHigh == <<400, 400, 400, 400, 600>>

JudgeOutcomes ==
    {JudgeOutcome(k, NoScores) : k \in CallErrors \cup {"list", "dict_missing"}}
    \cup {JudgeOutcome("dict_scores", sc) : sc \in {ScoresPass, ScoresFail, ScoresLow, ScoresHigh}}

NextJudge ==
    \/ JudgeStart
    \/ \E i \in DOMAIN tasks : JudgeAcquire(i)
    \/ \E i \in DOMAIN tasks : \E o \in JudgeOutcomes : JudgeCallReturns(i, o)

(* the samples handed to filter: distinct objects, told apart by position *)
Digits == <<"1", "2", "3", "4", "5", "6", "7", "8", "9">>

JudgeInput(n) ==
    [k \in 1..n |-> TrainingSample(<<"Q", Digits[k]>>, <<"A">>, SkillList[1],
                                   "direct_task", MEDIUM)]

Ratios == {[num |-> 1, den |-> 5], [num |-> 1, den |-> 2], [num |-> 1, den |-> 1]}
Thresholds == {350, 360}

DefaultCfg == [strategies |-> <<>>, concurrency |-> 1, temperature |-> 80,
               llm |-> [temperature |-> 80, max_tokens |-> 2048],
               enabled |-> TRUE,
               sample_ratio |-> [num |-> 1, den |-> 5], min_overall_score |-> 350,
               llm_ok |-> TRUE,
               skill_filter |-> [min_length |-> 1, max_length |-> 3, min_words |-> 1,
                                 ascii_ratio |-> [num |-> 7, den |-> 10],
                                 blacklist_patterns |-> {<<"B">>}],
               sample_filter |-> [min_instruction_length |-> 1,
                                  max_instruction_length |-> 3,
                                  min_response_length |-> 1,
                                  max_response_length |-> 3,
                                  refusal_patterns |-> {}]]

NoStats == [raw_skills |-> 0, filtered_skills |-> 0, raw_samples |-> 0,
            filtered_samples |-> 0, quality |-> EmptyStats, final_samples |-> 0,
            keys |-> {}]

PipeIdle ==
    /\ pipe_pc = "off"
    /\ dry_run = FALSE
    /\ limit = 0
    /\ llm = "open"
    /\ closes = 0
    /\ pending = "none"
    /\ run_samples = <<>>
    /\ stats = NoStats
    /\ written = 0

JudgeIdle ==
    /\ j_samples = <<>>
    /\ to_evaluate = {}
    /\ tasks = <<>>
    /\ jsem = 0
    /\ judge_pc = "off"
    /\ j_ret = [samples |-> <<>>, stats |-> EmptyStats]

(* the parts of the state a specification leaves alone *)
SynthIdle ==
    /\ skills = <<>>
    /\ items = <<>>
    /\ sem = 0
    /\ doneq = <<>>
    /\ all_samples = <<>>
    /\ completed = 0
    /\ synth_pc = "off"
    /\ hung = {}

ParseIdle ==
    /\ p_in = [skill |-> SkillList[1], strategy |-> "direct_task", outcome |-> NoOutcome]
    /\ p_out = [exc |-> "none", samples |-> <<>>]
    /\ p_pc = "off"

CollectIdle ==
    /\ collectors = 0
    /\ c_results = <<>>
    /\ collect_pc = "off"
    /\ unique = <<>>

FnIdle ==
    /\ f_in = <<>>
    /\ f_out = <<>>
    /\ f_pc = "off"

(* Synthesizer(config, llm) constructed, synthesize_all(skills) not yet    *)
(* called *)
InitSynth ==
    /\ skills \in SkillLists
    /\ \E strategies \in SeqsUpTo({StrategyCfg(nm) : nm \in StrategyNames}, MaxStrategies) :
       \E c \in 1..MaxConcurrency :
          /\ Len(skills) * Len(strategies) <= MaxItems
          /\ cfg = [DefaultCfg EXCEPT !.strategies = strategies, !.concurrency = c]
          /\ sem = c
    /\ items = <<>>
    /\ doneq = <<>>
    /\ all_samples = <<>>
    /\ completed = 0
    /\ synth_pc = "idle"
    /\ hung = {}
    /\ ParseIdle
    /\ JudgeIdle
    /\ PipeIdle
    /\ CollectIdle
    /\ FnIdle

SpecSynth == InitSynth /\ [][NextSynth]_vars

(* synthesize_all with at most one work item whose call never returns;     *)
(* the event loop runs every coroutine that can run, the semaphore wakes   *)
(* its waiters in turn, and the backend answers every other call.          *)
HungOutcomes == {Outcome("ProviderError", <<>>), Outcome("list", <<Good1>>)}

NextHung ==
    \/ SynthStart
    \/ \E i \in DOMAIN items : SynthAcquire(i)
    \/ \E i \in DOMAIN items : \E o \in HungOutcomes : SynthCallReturns(i, o)
    \/ SynthCollect

HungStrategies == {SubSeq(<<StrategyCfg("direct_task"), StrategyCfg("unknown"),
                             StrategyCfg("edge_case")>>, 1, k) : k \in 0..MaxStrategies}

InitHung ==
    /\ skills \in SkillLists
    /\ \E strategies \in HungStrategies :
       \E c \in 1..MaxConcurrency :
          /\ Len(skills) * Len(strategies) <= MaxItems
          /\ cfg = [DefaultCfg EXCEPT !.strategies = strategies, !.concurrency = c]
          /\ sem = c
          /\ hung \in {{}} \cup {{h} : h \in 1..(Len(skills) * Len(strategies))}
    /\ items = <<>>
    /\ doneq = <<>>
    /\ all_samples = <<>>
    /\ completed = 0
    /\ synth_pc = "idle"
    /\ ParseIdle
    /\ JudgeIdle
    /\ PipeIdle
    /\ CollectIdle
    /\ FnIdle

FairHung ==
    /\ WF_vars(SynthStart)
    /\ \A i \in 1..MaxItems : SF_vars(i \in DOMAIN items /\ SynthAcquire(i))
    /\ \A i \in 1..MaxItems :
          WF_vars(i \in DOMAIN items /\ \E o \in HungOutcomes : SynthCallReturns(i, o))
    /\ WF_vars(SynthCollect)

SpecHung == InitHung /\ [][NextHung]_vars /\ FairHung

(* synthesize_all under a configuration whose temperature and max-token    *)
(* ceiling vary, one skill being longer than what a prompt takes of it     *)
LongSkill == [name |-> "s5", content |-> [k \in 1..(SKILL_CONTENT_MAX + 1) |-> "x"]]
Temperatures == {0, 80}
TokenCeilings == {1024, 2048}

InitCall ==
    /\ skills \in SkillLists \cup {<<LongSkill>>}
    /\ \E strategies \in HungStrategies :
       \E c \in 1..MaxConcurrency :
       \E t \in Temperatures : \E lt \in Temperatures : \E mt \in TokenCeilings :
          /\ Len(skills) * Len(strategies) <= MaxItems
          /\ cfg = [DefaultCfg EXCEPT !.strategies = strategies, !.concurrency = c,
                                      !.temperature = t,
                                      !.llm = [temperature |-> lt, max_tokens |-> mt]]
          /\ sem = c
    /\ items = <<>>
    /\ doneq = <<>>
    /\ all_samples = <<>>
    /\ completed = 0
    /\ synth_pc = "idle"
    /\ hung = {}
    /\ ParseIdle
    /\ JudgeIdle
    /\ PipeIdle
    /\ CollectIdle
    /\ FnIdle

SpecCall == InitCall /\ [][NextHung]_vars

(* LLMQualityFilter(config, llm) constructed, filter(samples) not yet      *)
(* called *)
InitJudge ==
    /\ \E en \in BOOLEAN : \E ratio \in Ratios : \E th \in Thresholds :
          cfg = [DefaultCfg EXCEPT !.enabled = en, !.sample_ratio = ratio,
                                   !.min_overall_score = th]
    /\ \E n \in 0..MaxSamples : j_samples = JudgeInput(n)
    /\ to_evaluate = {}
    /\ tasks = <<>>
    /\ jsem = 0
    /\ judge_pc = "idle"
    /\ j_ret = [samples |-> <<>>, stats |-> EmptyStats]
    /\ SynthIdle
    /\ ParseIdle
    /\ PipeIdle
    /\ CollectIdle
    /\ FnIdle

SpecJudge == InitJudge /\ [][NextJudge]_vars

(* either stage on its own; the permits do not depend on which prompt a    *)
(* strategy renders nor on the judge's threshold, so one known strategy,   *)
(* the unknown one and the default threshold stand for the others          *)
InitStages ==
    \/ /\ InitSynth
       /\ \A k \in DOMAIN cfg.strategies : cfg.strategies[k].name # "edge_case"
    \/ /\ InitJudge
       /\ cfg.min_overall_score = DefaultCfg.min_overall_score

SpecStages == InitStages /\ [][NextSynth \/ NextJudge]_vars

----------------------------------------------------------------------------
(* One work item alone: _synthesize_one from the return of generate_json   *)
(* to its own return, over every answer within the bounds.                 *)
FieldsInstruction == {JAbsent, JStr(<<" ">>), JStr(TextQ), JNum}
FieldsResponse == {JStr(TextA), JStr(<<>>), JNull}
FieldsDifficulty == {JAbsent, JStr(<<"h">>), JNum}

Entries == {Rec(i, r, d) : i \in FieldsInstruction, r \in FieldsResponse,
                           d \in FieldsDifficulty} \cup {NonRec}

ParseOutcomes ==
    {Outcome(k, its) : k \in {"dict_samples_list", "list"},
                       its \in SeqsUpTo(Entries, MaxEntries)}
    \cup {Outcome(k, <<>>) : k \in CallErrors \cup {"dict_no_samples", "dict_samples_str",
                                   "dict_samples_num", "dict_samples_null", "scalar"}}

ParseStep ==
    /\ p_pc = "call"
    /\ p_out' = SynthesizeOneBody(p_in.outcome, p_in.skill, p_in.strategy)
    /\ p_pc' = "done"
    /\ UNCHANGED <<cfg, synthVars, p_in, collectVars, fnVars, hung, judgeVars, pipeVars>>

NextParse == ParseStep

InitParse ==
    /\ cfg = DefaultCfg
    /\ SynthIdle
    /\ JudgeIdle
    /\ PipeIdle
    /\ CollectIdle
    /\ FnIdle
    /\ p_in \in [skill : {SkillList[1], SkillList[2]},
                 strategy : {"direct_task", "edge_case"},
                 outcome : ParseOutcomes]
    /\ p_out = [exc |-> "none", samples |-> <<>>]
    /\ p_pc = "call"

SpecParse == InitParse /\ [][NextParse]_vars

----------------------------------------------------------------------------
(* filters/heuristic.py *)
IsAscii(c) == c # "é"

(* len(content.split()): the runs of characters that are not blanks *)
WordCount(t) ==
    Cardinality({k \in DOMAIN t : ~IsSpace(t[k]) /\ (k = 1 \/ IsSpace(t[k - 1]))})

Contains(t, pat) ==
    \E k \in 0..(Len(t) - Len(pat)) : SubSeq(t, k + 1, k + Len(pat)) = pat

(* re.compile(re.escape(p), re.IGNORECASE).search(t) *)
SearchIgnoreCase(t, pat) == Contains(Lower(t), Lower(pat))

(* an accept that wants more than min_words words *)
SkillAcceptMoreWords(skill, fc) ==
    LET content == Strip(skill.content)
        ascii_count == Cardinality({k \in DOMAIN content : IsAscii(content[k])})
    IN /\ ~(Len(content) < fc.min_length \/ Len(content) > fc.max_length)
       /\ ~(WordCount(content) <= fc.min_words)
       /\ content # <<>> =>
             ~(ascii_count * fc.ascii_ratio.den < fc.ascii_ratio.num * Len(content))
       /\ \A pat \in fc.blacklist_patterns : ~SearchIgnoreCase(content, pat)

(* HeuristicFilter._accept *)
SkillAccept(skill, fc) ==
    LET content == Strip(skill.content)
        ascii_count == Cardinality({k \in DOMAIN content : IsAscii(content[k])})
    IN /\ ~(Len(content) < fc.min_length \/ Len(content) > fc.max_length)
       /\ ~(WordCount(content) < fc.min_words)
       /\ content # <<>> =>
             ~(ascii_count * fc.ascii_ratio.den < fc.ascii_ratio.num * Len(content))
       /\ \A pat \in fc.blacklist_patterns : ~SearchIgnoreCase(content, pat)

RECURSIVE HeuristicFilter(_, _)
HeuristicFilter(sk, fc) ==
    IF sk = <<>> THEN <<>>
    ELSE IF SkillAccept(Head(sk), fc)
         THEN <<Head(sk)>> \o HeuristicFilter(Tail(sk), fc)
         ELSE HeuristicFilter(Tail(sk), fc)

(* the part of the response searched for a refusal: resp[:200] *)
REFUSAL_WINDOW == 200

(* SampleHeuristicFilter._accept *)
SampleAccept(sample, fc) ==
    LET inst == Strip(sample.instruction)
        resp == Strip(sample.response)
        response_start == SubSeq(resp, 1, Min(Len(resp), REFUSAL_WINDOW))
    IN /\ ~(Len(inst) < fc.min_instruction_length)
       /\ ~(Len(inst) > fc.max_instruction_length)
       /\ ~(Len(resp) < fc.min_response_length)
       /\ ~(Len(resp) > fc.max_response_length)
       /\ \A pat \in fc.refusal_patterns : ~SearchIgnoreCase(response_start, pat)

(* a loop that remembers the instruction before it looks at the sample *)
RECURSIVE SampleFilterLoopSeenFirst(_, _, _)
SampleFilterLoopSeenFirst(samples, fc, seen) ==
    IF samples = <<>> THEN <<>>
    ELSE LET sample == Head(samples)
             key == Lower(Strip(sample.instruction))
         IN IF key \in seen \/ ~SampleAccept(sample, fc)
            THEN SampleFilterLoopSeenFirst(Tail(samples), fc, seen \cup {key})
            ELSE <<sample>> \o SampleFilterLoopSeenFirst(Tail(samples), fc, seen \cup {key})

(* SampleHeuristicFilter.filter *)
RECURSIVE SampleFilterLoop(_, _, _)
SampleFilterLoop(samples, fc, seen) ==
    IF samples = <<>> THEN <<>>
    ELSE LET sample == Head(samples)
             key == Lower(Strip(sample.instruction))
         IN IF ~SampleAccept(sample, fc) THEN SampleFilterLoop(Tail(samples), fc, seen)
            ELSE IF key \in seen THEN SampleFilterLoop(Tail(samples), fc, seen)
            ELSE <<sample>> \o SampleFilterLoop(Tail(samples), fc, seen \cup {key})

SampleHeuristicFilter(samples, fc) == SampleFilterLoop(samples, fc, {})

----------------------------------------------------------------------------
(* llm/base.py: _extract_json *)

(* A JSON value: a number (its digits), the empty object, or an array.     *)
JNumber(digits) == [k |-> "num", digits |-> digits, items |-> <<>>]
JObject == [k |-> "obj", digits |-> <<>>, items |-> <<>>]
JArray(its) == [k |-> "list", digits |-> <<>>, items |-> its]

ParseFail == [ok |-> FALSE, val |-> JObject, next |-> 0]
Parsed(v, n) == [ok |-> TRUE, val |-> v, next |-> n]

(* the first position from p on that holds no whitespace *)
RECURSIVE SkipWs(_, _)
SkipWs(t, p) == IF p <= Len(t) /\ IsSpace(t[p]) THEN SkipWs(t, p + 1) ELSE p

IsDigit(c) == c \in {"1", "2"}

RECURSIVE NumEnd(_, _)
NumEnd(t, p) == IF p <= Len(t) /\ IsDigit(t[p]) THEN NumEnd(t, p + 1) ELSE p

(* the decoder of json.loads: a value from position p on *)
RECURSIVE ParseValue(_, _)
RECURSIVE ParseElems(_, _, _)
ParseValue(t, p) ==
    LET q == SkipWs(t, p) IN
    IF q > Len(t) THEN ParseFail
    ELSE IF IsDigit(t[q]) THEN Parsed(JNumber(SubSeq(t, q, NumEnd(t, q) - 1)), NumEnd(t, q))
    ELSE IF t[q] = "{"
         THEN LET r == SkipWs(t, q + 1)
              IN IF r <= Len(t) /\ t[r] = "}" THEN Parsed(JObject, r + 1) ELSE ParseFail
    ELSE IF t[q] = "["
         THEN LET r == SkipWs(t, q + 1)
              IN IF r <= Len(t) /\ t[r] = "]" THEN Parsed(JArray(<<>>), r + 1)
                 ELSE ParseElems(t, q + 1, <<>>)
    ELSE ParseFail

ParseElems(t, p, acc) ==
    LET v == ParseValue(t, p) IN
    IF ~v.ok THEN ParseFail
    ELSE LET r == SkipWs(t, v.next) IN
         IF r > Len(t) THEN ParseFail
         ELSE IF t[r] = "]" THEN Parsed(JArray(Append(acc, v.val)), r + 1)
         ELSE IF t[r] = "," THEN ParseElems(t, r + 1, Append(acc, v.val))
         ELSE ParseFail

(* json.loads(text): the value, or JSONDecodeError; text after the value   *)
(* other than whitespace is an error.                                      *)
JsonLoads(t) ==
    LET v == ParseValue(t, 1) IN
    IF v.ok /\ SkipWs(t, v.next) > Len(t)
    THEN [exc |-> "none", value |-> v.val]
    ELSE [exc |-> "JSONDecodeError", value |-> JObject]

(* the character of a code fence, the grave accent, is written "~" here *)
TICK == "~"
FENCE == <<TICK, TICK, TICK>>

StartsWith(t, prefix) ==
    Len(t) >= Len(prefix) /\ SubSeq(t, 1, Len(prefix)) = prefix

(* text.split("\n"): the lines of the text, at least one *)
RECURSIVE SplitLines(_, _)
SplitLines(t, line) ==
    IF t = <<>> THEN <<line>>
    ELSE IF Head(t) = NL THEN <<line>> \o SplitLines(Tail(t), <<>>)
    ELSE SplitLines(Tail(t), Append(line, Head(t)))

(* "\n".join(lines) *)
RECURSIVE JoinLines(_)
JoinLines(lines) ==
    IF lines = <<>> THEN <<>>
    ELSE IF Len(lines) = 1 THEN lines[1]
    ELSE lines[1] \o <<NL>> \o JoinLines(Tail(lines))

(* an extraction that knows nothing of code fences *)
ExtractJsonNoFence(text) == JsonLoads(Strip(text))

(* _extract_json *)
ExtractJson(text) ==
    LET stripped == Strip(text) IN
    IF StartsWith(stripped, FENCE)
    THEN LET lines == Tail(SplitLines(stripped, <<>>))
             kept == IF lines # <<>> /\ Strip(lines[Len(lines)]) = FENCE
                     THEN SubSeq(lines, 1, Len(lines) - 1)
                     ELSE lines
         IN JsonLoads(Strip(JoinLines(kept)))
    ELSE JsonLoads(stripped)

(* JSON texts of the model: json.dumps of a value in a layout *)
Layouts == {"compact", "spaced", "lines"}

Separator(layout) ==
    CASE layout = "compact" -> <<",">>
      [] layout = "spaced" -> <<",", " ">>
      [] OTHER -> <<",", NL, " ">>
OpenArray(layout) == IF layout = "lines" THEN <<"[", NL, " ">> ELSE <<"[">>
CloseArray(layout) == IF layout = "lines" THEN <<NL, "]">> ELSE <<"]">>

RECURSIVE Dumps(_, _)
RECURSIVE DumpElems(_, _)
Dumps(v, layout) ==
    CASE v.k = "num" -> v.digits
      [] v.k = "obj" -> <<"{", "}">>
      [] OTHER -> IF v.items = <<>> THEN <<"[", "]">>
                  ELSE OpenArray(layout) \o DumpElems(v.items, layout) \o CloseArray(layout)

DumpElems(its, layout) ==
    IF Len(its) = 1 THEN Dumps(its[1], layout)
    ELSE Dumps(its[1], layout) \o Separator(layout) \o DumpElems(Tail(its), layout)

JsonValues ==
    {JNumber(<<"1">>), JNumber(<<"2", "1">>), JObject, JArray(<<>>),
     JArray(<<JNumber(<<"1">>)>>),
     JArray(<<JObject, JNumber(<<"1", "2">>)>>),
     JArray(<<JArray(<<JNumber(<<"2">>)>>), JObject>>)}

(* a fenced code block: the opening line, the text, the closing line *)
FenceOpens == {FENCE \o <<"j", "s", "o", "n">>, FENCE}
FenceCloses == {FENCE, <<" ">> \o FENCE}
Trailers == {<<>>, <<NL>>}

Wrap(text, open, close) == open \o <<NL>> \o text \o <<NL>> \o close

(* the response text: the JSON text bare, in one code block, or in two *)
ResponseText(in, which) ==
    LET J == Dumps(in.value, in.layout) IN
    CASE which = "plain" -> J \o in.trail
      [] which = "once" -> Wrap(J, in.open, in.close) \o in.trail
      [] OTHER -> Wrap(Wrap(J, in.open, in.close), in.open, in.close) \o in.trail

Pending == [exc |-> "pending", value |-> JObject]

(* _extract_json applied to one of the response texts *)
ExtractStep(which) ==
    /\ f_pc = "call"
    /\ f_out[which] = Pending
    /\ f_out' = [f_out EXCEPT ![which] = ExtractJson(ResponseText(f_in, which))]
    /\ f_pc' = IF \A w \in DOMAIN f_out \ {which} : f_out[w] # Pending
               THEN "done" ELSE "call"
    /\ UNCHANGED <<cfg, synthVars, parseVars, judgeVars, pipeVars, collectVars, f_in, hung>>

NextExtract == \E which \in {"plain", "once", "twice"} : ExtractStep(which)

----------------------------------------------------------------------------
(* collectors/__init__.py: collect_all *)

(* what collect() of a collector does: it raises, or returns its skills *)
CollectErrors == {"HTTPError", "KeyError"}
CollectOutcome(kind, sk) == [t |-> kind, skills |-> sk]

(* a _run that catches the transport errors only *)
RunCatchesHTTPErrorOnly(exc) == exc = "HTTPError"

(* _run: except Exception *)
RunCatches(exc) == TRUE

(* the body of _run after collect() has returned or raised *)
RunBody(outcome) ==
    IF outcome.t \in CollectErrors
    THEN IF RunCatches(outcome.t) THEN [exc |-> "none", skills |-> <<>>]
         ELSE [exc |-> outcome.t, skills |-> <<>>]
    ELSE [exc |-> "none", skills |-> outcome.skills]

(* all_skills = [s for batch in results for s in batch] *)
RECURSIVE Flatten(_)
Flatten(results) ==
    IF results = <<>> THEN <<>> ELSE Head(results) \o Flatten(Tail(results))

(* the loop over all_skills: a skill is appended unless its id was seen *)
RECURSIVE UniqueLoop(_, _)
UniqueLoop(all_skills, seen) ==
    IF all_skills = <<>> THEN <<>>
    ELSE LET skill == Head(all_skills) IN
         IF SkillId(skill) \notin seen
         THEN <<skill>> \o UniqueLoop(Tail(all_skills), seen \cup {SkillId(skill)})
         ELSE UniqueLoop(Tail(all_skills), seen)

Unique(all_skills) == UniqueLoop(all_skills, {})

IdleRun == [st |-> "none", exc |-> "none", skills |-> <<>>, collected |-> <<>>,
            failed |-> FALSE]

(* collect_all, up to the await of gather: one task _run per collector;    *)
(* gather of no task returns at once and the list returned is empty.       *)
CollectStart ==
    /\ collect_pc = "idle"
    /\ c_results' = [k \in 1..collectors |-> [IdleRun EXCEPT !.st = "running"]]
    /\ IF collectors = 0
       THEN /\ collect_pc' = "returned"
            /\ unique' = Unique(<<>>)
       ELSE /\ collect_pc' = "gathering"
            /\ UNCHANGED unique
    /\ UNCHANGED <<cfg, collectors, synthVars, parseVars, judgeVars, pipeVars, fnVars, hung>>

(* collect() of collector i returns or raises and _run runs to its return. *)
(* An exception that _run lets through leaves gather and collect_all. With *)
(* the last result gather returns the batches in collector order, and      *)
(* collect_all runs to its return without suspending.                      *)
CollectorReturns(i, outcome) ==
    /\ collect_pc \in {"gathering", "raised"}
    /\ c_results[i].st = "running"
    /\ LET r == RunBody(outcome)
           rs == [c_results EXCEPT ![i] = [st |-> "done", exc |-> r.exc,
                                           skills |-> r.skills,
                                           collected |-> outcome.skills,
                                           failed |-> outcome.t \in CollectErrors]]
       IN /\ c_results' = rs
          /\ IF r.exc # "none"
             THEN /\ collect_pc' = "raised"
                  /\ UNCHANGED unique
             ELSE IF collect_pc = "gathering" /\ \A k \in DOMAIN rs : rs[k].st = "done"
             THEN /\ collect_pc' = "returned"
                  /\ unique' = Unique(Flatten([k \in DOMAIN rs |-> rs[k].skills]))
             ELSE UNCHANGED <<collect_pc, unique>>
    /\ UNCHANGED <<cfg, collectors, synthVars, parseVars, judgeVars, pipeVars, fnVars, hung>>

(* what a collector returns: a run of the skills of the model *)
SkillRuns == {SubSeq(SkillList, a, b) : a, b \in 1..MaxSkills}

CollectOutcomes ==
    {CollectOutcome(e, <<>>) : e \in CollectErrors}
    \cup {CollectOutcome("skills", sk) : sk \in SkillRuns}

NextCollect ==
    \/ CollectStart
    \/ \E i \in DOMAIN c_results : \E o \in CollectOutcomes : CollectorReturns(i, o)

(* the collectors are built, collect_all has not yet reached gather *)
InitCollect ==
    /\ cfg = DefaultCfg
    /\ collectors \in 0..MaxCollectors
    /\ c_results = <<>>
    /\ collect_pc = "idle"
    /\ unique = <<>>
    /\ SynthIdle
    /\ ParseIdle
    /\ JudgeIdle
    /\ PipeIdle
    /\ FnIdle

SpecCollect == InitCollect /\ [][NextCollect]_vars

InitExtract ==
    /\ cfg = DefaultCfg
    /\ f_in \in [value : JsonValues, layout : Layouts, open : FenceOpens,
                 close : FenceCloses, trail : Trailers]
    /\ f_out = [plain |-> Pending, once |-> Pending, twice |-> Pending]
    /\ f_pc = "call"
    /\ hung = {}
    /\ SynthIdle
    /\ ParseIdle
    /\ JudgeIdle
    /\ PipeIdle
    /\ CollectIdle

SpecExtract == InitExtract /\ [][NextExtract]_vars

(* QualityVerdict alone: built from five sub-scores, in hundredths *)
ScoreValues == {99, 100, 101, 333, 500, 501}

VerdictStep ==
    /\ f_pc = "call"
    /\ f_out' = QualityVerdict(JudgeOutcome("dict_scores", f_in))
    /\ f_pc' = "done"
    /\ UNCHANGED <<cfg, synthVars, parseVars, judgeVars, pipeVars, collectVars, f_in, hung>>

NextVerdict == VerdictStep

InitVerdict ==
    /\ cfg = DefaultCfg
    /\ f_in \in [1..5 -> ScoreValues]
    /\ f_out = [exc |-> "none", overall |-> None]
    /\ f_pc = "call"
    /\ hung = {}
    /\ SynthIdle
    /\ ParseIdle
    /\ JudgeIdle
    /\ PipeIdle
    /\ CollectIdle

SpecVerdict == InitVerdict /\ [][NextVerdict]_vars

(* SampleHeuristicFilter.filter alone, over samples as _parse_result makes *)
(* them: instruction and response trimmed and not empty.                   *)
Xs(n) == [k \in 1..n |-> "x"]

FilterSample(instruction, response) ==
    TrainingSample(instruction, response, SkillList[1], "direct_task", MEDIUM)

SamplePool ==
    {FilterSample(<<"Q", "1">>, <<"o", "k">>),
     FilterSample(<<"q", "1">>, <<"o", "k", "2">>),
     FilterSample(<<"Q", "2">>, <<"N", "o", ".">>),
     FilterSample(<<"Q", "1">>, Xs(REFUSAL_WINDOW - 2) \o <<"n", "o">>),
     FilterSample(<<"Q", "2">>, Xs(REFUSAL_WINDOW - 1) \o <<"n", "o">>),
     FilterSample(<<"Q", "1", "2", "3">>, <<"o", "k">>),
     FilterSample(<<"Q", "3">>, <<"n", "o", " ", "x">>)}

RefusalPatternSets == {{}, {<<"n", "o">>}, {<<"n", "o", " ">>, <<"z">>}}

SampleFilterCfg(patterns) ==
    [min_instruction_length |-> 1, max_instruction_length |-> 3,
     min_response_length |-> 2, max_response_length |-> REFUSAL_WINDOW + 50,
     refusal_patterns |-> patterns]

SampleFilterStep ==
    /\ f_pc = "call"
    /\ f_out' = SampleHeuristicFilter(f_in.samples, f_in.config)
    /\ f_pc' = "done"
    /\ UNCHANGED <<cfg, synthVars, parseVars, judgeVars, pipeVars, collectVars, f_in, hung>>

NextSampleFilter == SampleFilterStep

InitSampleFilter ==
    /\ cfg = DefaultCfg
    /\ \E samples \in SeqsUpTo(SamplePool, MaxBatch) : \E pats \in RefusalPatternSets :
          f_in = [samples |-> samples, config |-> SampleFilterCfg(pats)]
    /\ f_out = <<>>
    /\ f_pc = "call"
    /\ hung = {}
    /\ SynthIdle
    /\ ParseIdle
    /\ JudgeIdle
    /\ PipeIdle
    /\ CollectIdle

SpecSampleFilter == InitSampleFilter /\ [][NextSampleFilter]_vars

(* HeuristicFilter.filter alone, with min_length = 50 and the defaults of  *)
(* SkillFilterConfig                                                       *)
SkillFilterDefaults ==
    [min_length |-> 50, max_length |-> 10000, min_words |-> 10,
     ascii_ratio |-> [num |-> 7, den |-> 10], blacklist_patterns |-> {}]

(* a content of len characters: lead blanks first, a blank at every        *)
(* multiple of gap, a character that is not ASCII where k % step = 1       *)
ContentOf(len, lead, gap, step) ==
    [k \in 1..len |->
        IF k <= lead THEN " "
        ELSE IF gap > 0 /\ k % gap = 0 /\ k < len THEN " "
        ELSE IF step > 0 /\ k % step = 1 THEN "é"
        ELSE "x"]

Contents ==
    {ContentOf(len, lead, gap, step) :
        len \in {10, 200}, lead \in {0, 1, 151}, gap \in {0, 5, 10, 20, 25, 40, 50},
        step \in {0, 3, 10}}

SkillFilterStep ==
    /\ f_pc = "call"
    /\ f_out' = HeuristicFilter(<<f_in.skill>>, f_in.config)
    /\ f_pc' = "done"
    /\ UNCHANGED <<cfg, synthVars, parseVars, judgeVars, pipeVars, collectVars, f_in, hung>>

NextSkillFilter == SkillFilterStep

InitSkillFilter ==
    /\ cfg = DefaultCfg
    /\ \E content \in Contents :
          f_in = [skill |-> [name |-> "s", content |-> content],
                  config |-> SkillFilterDefaults]
    /\ f_out = <<>>
    /\ f_pc = "call"
    /\ hung = {}
    /\ SynthIdle
    /\ ParseIdle
    /\ JudgeIdle
    /\ PipeIdle
    /\ CollectIdle

SpecSkillFilter == InitSkillFilter /\ [][NextSkillFilter]_vars

----------------------------------------------------------------------------
(* Pipeline.run *)

(* stages 1 and 2: collect_all returns, the limit and the skill filter are *)
(* applied; a dry run prints the summary and returns.                      *)
PipeCollect(collected) ==
    /\ pipe_pc = "start"
    /\ LET limited == IF limit # 0 THEN SubSeq(collected, 1, Min(limit, Len(collected)))
                      ELSE collected
           filtered == HeuristicFilter(limited, cfg.skill_filter)
       IN /\ Len(filtered) * Len(cfg.strategies) <= MaxItems
          /\ skills' = filtered
          /\ stats' = [stats EXCEPT !.raw_skills = Len(collected),
                                    !.filtered_skills = Len(filtered),
                                    !.keys = {"raw_skills", "filtered_skills"}]
    /\ pipe_pc' = IF dry_run THEN "done" ELSE "stage3"
    /\ UNCHANGED <<cfg, items, sem, doneq, all_samples, completed, synth_pc, otherVars,
                   judgeVars, dry_run, limit, llm, closes, pending, run_samples, written>>

(* stage 3, up to the await: create_llm_client raises before the try, or   *)
(* the client exists; then Synthesizer(...) makes its semaphore, which     *)
(* raises ValueError for a negative value, and synthesize_all is called.   *)
PipeCreateClient ==
    /\ pipe_pc = "stage3"
    /\ IF ~cfg.llm_ok
       THEN /\ pipe_pc' = "raised"
            /\ pending' = "ValueError"
            /\ llm' = "none"
            /\ UNCHANGED <<sem, synth_pc>>
       ELSE /\ llm' = "open"
            /\ IF cfg.concurrency < 0
               THEN /\ pipe_pc' = "closing"
                    /\ pending' = "ValueError"
                    /\ UNCHANGED <<sem, synth_pc>>
               ELSE /\ pipe_pc' = "synth"
                    /\ pending' = "none"
                    /\ sem' = cfg.concurrency
                    /\ synth_pc' = "idle"
    /\ UNCHANGED <<cfg, skills, items, doneq, all_samples, completed, otherVars, judgeVars,
                   dry_run, limit, closes, run_samples, stats, written>>

(* a run that goes on to stage 4 with the samples gathered so far, while   *)
(* work items are still waiting or calling                                 *)
PipeAfterSynthNoAwait ==
    /\ pipe_pc = "synth"
    /\ synth_pc \in {"running", "returned", "raised"}
    /\ IF synth_pc = "raised"
       THEN /\ pipe_pc' = "closing"
            /\ pending' = "Exception"
            /\ UNCHANGED <<judgeVars, stats>>
       ELSE /\ LET samples == SampleHeuristicFilter(all_samples, cfg.sample_filter)
               IN /\ j_samples' = samples
                  /\ stats' = [stats EXCEPT !.raw_samples = Len(all_samples),
                                            !.filtered_samples = Len(samples),
                                            !.keys = @ \cup {"raw_samples", "filtered_samples"}]
            /\ judge_pc' = "idle"
            /\ pipe_pc' = "judge"
            /\ UNCHANGED <<pending, to_evaluate, tasks, jsem, j_ret>>
    /\ UNCHANGED <<cfg, skills, items, doneq, all_samples, completed, synth_pc, sem,
                   otherVars, dry_run, limit, llm, closes, run_samples, written>>

(* synthesize_all has returned or raised: stage 4 filters the samples and  *)
(* stage 5 constructs the judge and calls filter; an exception goes to the *)
(* finally clause.                                                         *)
PipeAfterSynth ==
    /\ pipe_pc = "synth"
    /\ synth_pc \in {"returned", "raised"}
    /\ IF synth_pc = "raised"
       THEN /\ pipe_pc' = "closing"
            /\ pending' = "Exception"
            /\ UNCHANGED <<items, doneq, all_samples, completed, synth_pc, judgeVars, stats>>
       ELSE /\ LET samples == SampleHeuristicFilter(all_samples, cfg.sample_filter)
               IN /\ j_samples' = samples
                  /\ stats' = [stats EXCEPT !.raw_samples = Len(all_samples),
                                            !.filtered_samples = Len(samples),
                                            !.keys = @ \cup {"raw_samples", "filtered_samples"}]
            /\ judge_pc' = "idle"
            /\ pipe_pc' = "judge"
            /\ items' = <<>>
            /\ doneq' = <<>>
            /\ all_samples' = <<>>
            /\ completed' = 0
            /\ synth_pc' = "off"
            /\ UNCHANGED <<pending, to_evaluate, tasks, jsem, j_ret>>
    /\ UNCHANGED <<cfg, skills, sem, otherVars, dry_run, limit, llm, closes, run_samples,
                   written>>

(* filter has returned or raised: the statistics are recorded and control  *)
(* reaches the finally clause.                                             *)
PipeAfterJudge ==
    /\ pipe_pc = "judge"
    /\ judge_pc \in {"returned", "raised"}
    /\ IF judge_pc = "raised"
       THEN /\ pending' = "Exception"
            /\ UNCHANGED <<judgeVars, run_samples, stats>>
       ELSE /\ pending' = "none"
            /\ run_samples' = [k \in DOMAIN j_ret.samples |-> j_samples[j_ret.samples[k]]]
            /\ stats' = [stats EXCEPT !.quality = j_ret.stats,
                                      !.final_samples = Len(j_ret.samples),
                                      !.keys = @ \cup {"quality", "final_samples"}]
            /\ j_samples' = <<>>
            /\ to_evaluate' = {}
            /\ tasks' = <<>>
            /\ j_ret' = [samples |-> <<>>, stats |-> EmptyStats]
            /\ judge_pc' = "off"
            /\ UNCHANGED jsem
    /\ pipe_pc' = "closing"
    /\ UNCHANGED <<cfg, synthVars, otherVars, dry_run, limit, llm, closes, written>>

(* a run that closes the client after the try block instead of in finally *)
PipeCloseNoFinally(close_ok) ==
    /\ pipe_pc = "closing"
    /\ IF pending # "none"
       THEN /\ pipe_pc' = "raised"
            /\ UNCHANGED <<pending, closes, llm>>
       ELSE /\ closes' = closes + 1
            /\ llm' = "closed"
            /\ IF ~close_ok THEN /\ pipe_pc' = "raised"
                                 /\ pending' = "CloseError"
               ELSE /\ pipe_pc' = "stage6"
                    /\ UNCHANGED pending
    /\ UNCHANGED <<cfg, synthVars, otherVars, judgeVars, dry_run, limit, run_samples,
                   stats, written>>

(* finally: await llm.close(); close() returns or raises; a pending        *)
(* exception leaves run after it.                                          *)
PipeClose(close_ok) ==
    /\ pipe_pc = "closing"
    /\ closes' = closes + 1
    /\ llm' = "closed"
    /\ IF pending # "none" THEN /\ pipe_pc' = "raised"
                                /\ UNCHANGED pending
       ELSE IF ~close_ok THEN /\ pipe_pc' = "raised"
                              /\ pending' = "CloseError"
       ELSE /\ pipe_pc' = "stage6"
            /\ UNCHANGED pending
    /\ UNCHANGED <<cfg, synthVars, otherVars, judgeVars, dry_run, limit, run_samples,
                   stats, written>>

(* stage 6: writer.write(samples, stats) *)
PipeWrite(write_ok) ==
    /\ pipe_pc = "stage6"
    /\ written' = written + 1
    /\ IF write_ok THEN /\ pipe_pc' = "done"
                        /\ UNCHANGED pending
       ELSE /\ pipe_pc' = "raised"
            /\ pending' = "OSError"
    /\ UNCHANGED <<cfg, synthVars, otherVars, judgeVars, dry_run, limit, llm, closes,
                   run_samples, stats>>

(* what collect_all can return: no two skills of one id *)
CollectResults == {Unique(sk) : sk \in SkillLists}

NextPipe ==
    \/ \E collected \in CollectResults : PipeCollect(collected)
    \/ PipeCreateClient
    \/ PipeAfterSynth
    \/ PipeAfterJudge
    \/ \E ok \in BOOLEAN : PipeClose(ok)
    \/ \E ok \in BOOLEAN : PipeWrite(ok)

Next == NextPipe \/ NextSynth \/ NextJudge

NaN == [num |-> 0, den |-> 0]

PipeStrategies == {<<StrategyCfg("direct_task")>>,
                   <<StrategyCfg("edge_case"), StrategyCfg("unknown")>>}

(* Pipeline(config) constructed, run(dry_run, limit) called *)
Init ==
    /\ \E st \in PipeStrategies : \E c \in {-1} \cup (1..MaxConcurrency) :
       \E en \in BOOLEAN : \E ratio \in {[num |-> 1, den |-> 1], NaN} : \E ok \in BOOLEAN :
       \E bl \in {{}, {<<"B">>}} :
          cfg = [DefaultCfg EXCEPT !.strategies = st, !.concurrency = c, !.enabled = en,
                                   !.sample_ratio = ratio, !.llm_ok = ok,
                                   !.skill_filter.blacklist_patterns = bl]
    /\ dry_run \in BOOLEAN
    /\ limit \in {0, 1}
    /\ pipe_pc = "start"
    /\ llm = "none"
    /\ closes = 0
    /\ pending = "none"
    /\ run_samples = <<>>
    /\ stats = NoStats
    /\ written = 0
    /\ SynthIdle
    /\ ParseIdle
    /\ JudgeIdle
    /\ CollectIdle
    /\ FnIdle

Spec == Init /\ [][Next]_vars

----------------------------------------------------------------------------
(* Properties of the synthesis stage *)

(* the samples of the work items, as a count per sample value *)
SampleValues == UNION {{items[i].samples[k] : k \in DOMAIN items[i].samples} : i \in DOMAIN items}
                \cup {all_samples[k] : k \in DOMAIN all_samples}

ItemsCount(x) == SumOver([i \in DOMAIN items |-> Count(items[i].samples, x)], DOMAIN items)

(* C1: whatever work items fail (provider error, malformed JSON, error     *)
(* while parsing), synthesize_all raises nothing; when it returns, the     *)
(* completed counter equals N = |skills| x |strategies|, every failing     *)
(* item contributed no sample, and the returned collection holds exactly   *)
(* the samples of the work items.                                          *)
C1_FailureIsolation ==
    /\ synth_pc # "raised"
    /\ \A i \in DOMAIN items : items[i].exc = "none"
    /\ synth_pc = "returned" =>
         /\ completed = Len(skills) * Len(cfg.strategies)
         /\ \A i \in DOMAIN items : items[i].failed => items[i].samples = <<>>
         /\ \A x \in SampleValues : Count(all_samples, x) = ItemsCount(x)

C1_Witness ==
    /\ synth_pc = "returned"
    /\ \E i, j \in DOMAIN items :
         /\ items[i].failed
         /\ ~items[j].failed /\ items[j].samples # <<>>
         /\ all_samples # <<>>

(* the entries of an answer that carry a usable instruction and response *)
IsText(f) == f.k = "str"
Usable(e) ==
    /\ e.t = "rec"
    /\ IsText(e.instruction) /\ Strip(e.instruction.s) # <<>>
    /\ IsText(e.response) /\ Strip(e.response.s) # <<>>

RECURSIVE UsablePairs(_)
UsablePairs(its) ==
    IF its = <<>> THEN <<>>
    ELSE IF Usable(Head(its))
         THEN <<[instruction |-> Strip(Head(its).instruction.s),
                 response |-> Strip(Head(its).response.s)]>> \o UsablePairs(Tail(its))
         ELSE UsablePairs(Tail(its))

Pairs(samples) == [k \in DOMAIN samples |->
                     [instruction |-> samples[k].instruction,
                      response |-> samples[k].response]]

HasEntries(o) == o.t \in {"dict_samples_list", "list"}

(* C8: the samples of a work item are exactly the usable entries of its    *)
(* answer, in order; any other entry is dropped on its own.                *)
C8_UsableEntriesKept ==
    (p_pc = "done" /\ HasEntries(p_in.outcome)) =>
        Pairs(p_out.samples) = UsablePairs(p_in.outcome.items)

(* an entry that makes the parser raise: a field that is not text *)
Raising(e) ==
    /\ e.t = "rec"
    /\ \/ e.instruction.k \in {"num", "null"}
       \/ e.response.k \in {"num", "null"}
       \/ (Usable(e) /\ e.difficulty.k \in {"num", "null"})

(* C9: a bag with key samples holding a sequence, or a bare sequence, is   *)
(* accepted; any other shape gives zero samples; no exception leaves the   *)
(* work item.                                                              *)
C9_Shapes ==
    p_pc = "done" =>
        /\ p_out.exc = "none"
        /\ ~HasEntries(p_in.outcome) => p_out.samples = <<>>
        /\ (HasEntries(p_in.outcome)
            /\ \A k \in DOMAIN p_in.outcome.items : ~Raising(p_in.outcome.items[k]))
           => Pairs(p_out.samples) = UsablePairs(p_in.outcome.items)

C9_Witness ==
    /\ p_pc = "done"
    /\ p_in.outcome.t = "dict_samples_num"
    /\ p_out = [exc |-> "none", samples |-> <<>>]

C9_WitnessBare ==
    /\ p_pc = "done"
    /\ p_in.outcome.t = "list"
    /\ Len(p_out.samples) = 2

----------------------------------------------------------------------------
(* Properties of the two limiters *)
SynthInFlight == Cardinality({i \in DOMAIN items : items[i].st = "calling"})
JudgeInFlight == Cardinality({k \in DOMAIN tasks : tasks[k].st = "calling"})

(* C2: the synthesis calls in flight never exceed the configured           *)
(* concurrency and the grading calls in flight never exceed 5; a permit    *)
(* is held exactly by a call in flight, so that none is held once the      *)
(* stage has returned.                                                     *)
C2_BoundedInFlight ==
    /\ SynthInFlight <= cfg.concurrency
    /\ JudgeInFlight <= 5
    /\ synth_pc \in {"idle", "running", "returned"} => sem + SynthInFlight = cfg.concurrency
    /\ judge_pc = "grading" => jsem + JudgeInFlight = 5
    /\ synth_pc = "returned" => (SynthInFlight = 0 /\ sem = cfg.concurrency)
    /\ (judge_pc = "returned" /\ to_evaluate # {}) => (JudgeInFlight = 0 /\ jsem = 5)

C2_Witness ==
    /\ JudgeInFlight = 5
    /\ \E k \in DOMAIN tasks : tasks[k].st = "waiting"

C2_WitnessSynth ==
    /\ SynthInFlight = cfg.concurrency
    /\ \E i \in DOMAIN items : items[i].st = "waiting"
    /\ \E i \in DOMAIN items : items[i].st = "finished" /\ items[i].failed

----------------------------------------------------------------------------
(* Properties of the judge *)
HasVerdict(k) == tasks[k].st = "done" /\ tasks[k].verdict # None
Judged == judge_pc = "returned" /\ cfg.enabled /\ j_samples # <<>>

RECURSIVE Retained(_)
Retained(k) ==
    IF k > Len(j_samples) THEN <<>>
    ELSE IF \/ k \notin to_evaluate
            \/ ~tasks[k].ok
            \/ tasks[k].verdict >= cfg.min_overall_score
         THEN <<k>> \o Retained(k + 1)
         ELSE Retained(k + 1)

(* C3: with at least one verdict, filter returns, in input order, exactly  *)
(* the samples with a verdict of overall >= min_overall_score, the samples *)
(* not selected and the samples whose grading failed.                      *)
C3_Retained ==
    (Judged /\ \E k \in DOMAIN tasks : HasVerdict(k)) =>
        /\ j_ret.samples = Retained(1)
        /\ \A k \in to_evaluate :
              (tasks[k].ok /\ tasks[k].verdict < cfg.min_overall_score)
                 => \A m \in DOMAIN j_ret.samples : j_ret.samples[m] # k

C3_Witness ==
    /\ Judged
    /\ \E k \in to_evaluate : HasVerdict(k) /\ tasks[k].verdict = cfg.min_overall_score
    /\ \E k \in to_evaluate : HasVerdict(k) /\ tasks[k].verdict < cfg.min_overall_score
    /\ \E k \in to_evaluate : ~tasks[k].ok
    /\ \E k \in DOMAIN j_samples : k \notin to_evaluate
    /\ Len(j_ret.samples) < Len(j_samples)

Ceil(a, b) == (a + b - 1) \div b

(* C4: the number of samples selected for grading is                       *)
(* max(1, ceil(sample_ratio * total)) and never exceeds total.             *)
C4_SelectedCount ==
    (judge_pc \in {"grading", "returned"} /\ cfg.enabled /\ j_samples # <<>>) =>
        /\ Cardinality(to_evaluate) =
              Max(1, Ceil(cfg.sample_ratio.num * Len(j_samples), cfg.sample_ratio.den))
        /\ Cardinality(to_evaluate) <= Len(j_samples)

(* C5: a grading failure of one selected sample gives no verdict for that  *)
(* sample only: filter raises nothing, every selected sample is graded,    *)
(* and it has a verdict exactly when its own answer is a verdict.          *)
C5_GradingIsolation ==
    /\ judge_pc # "raised"
    /\ \A k \in DOMAIN tasks : tasks[k].exc = "none"
    /\ Judged => \A k \in to_evaluate :
                    /\ tasks[k].st = "done"
                    /\ tasks[k].ok <=> tasks[k].verdict # None

C5_Witness ==
    /\ Judged
    /\ \E k, m \in to_evaluate : ~tasks[k].ok /\ tasks[m].ok /\ HasVerdict(m)

NoVerdictAtAll == \A k \in DOMAIN tasks : ~HasVerdict(k)

(* C6 as claimed: with zero verdicts filter returns the input unchanged    *)
(* and an empty statistics bag.                                            *)
C6_EmptyStats ==
    (Judged /\ NoVerdictAtAll) =>
        /\ j_ret.samples = AllPositions(j_samples)
        /\ j_samples = JudgeInput(Len(j_samples))
        /\ j_ret.stats = EmptyStats

(* C6 amended: with zero verdicts filter returns the input unchanged and   *)
(* a statistics bag whose only entry is evaluated = 0.                     *)
C6_EvaluatedZero ==
    (Judged /\ NoVerdictAtAll) =>
        /\ j_ret.samples = AllPositions(j_samples)
        /\ j_samples = JudgeInput(Len(j_samples))
        /\ j_ret.stats.keys = {"evaluated"}
        /\ j_ret.stats.evaluated = 0

C6_Witness ==
    /\ Judged /\ NoVerdictAtAll
    /\ Cardinality(to_evaluate) >= 2
    /\ \A k \in to_evaluate : tasks[k].st = "done"

(* C7: with the judge disabled or no input, filter makes no LLM call and   *)
(* returns the input unchanged, no quality_score written, with an empty    *)
(* statistics bag.                                                         *)
C7_PassThrough ==
    (judge_pc # "off" /\ (~cfg.enabled \/ j_samples = <<>>)) =>
        /\ tasks = <<>>
        /\ j_samples = JudgeInput(Len(j_samples))
        /\ judge_pc \in {"idle", "returned"}
        /\ judge_pc = "returned" =>
              j_ret = [samples |-> AllPositions(j_samples), stats |-> EmptyStats]

C7_Witness ==
    /\ judge_pc = "returned"
    /\ ~cfg.enabled
    /\ Len(j_samples) >= 2
    /\ Len(j_ret.samples) = Len(j_samples)

----------------------------------------------------------------------------
(* Properties of Pipeline.run *)

(* C10: close() is invoked exactly once on the client of a run that made   *)
(* one, whether the stages succeed or raise: never twice, and once by the  *)
(* time run is past its try block; without a client, and so in a dry run,  *)
(* close() is never invoked.                                               *)
C10_CloseOnce ==
    /\ closes <= 1
    /\ llm = "none" => closes = 0
    /\ llm = "open" => closes = 0
    /\ llm = "closed" => closes = 1
    /\ (pipe_pc \in {"stage6", "done", "raised"} /\ llm # "none") => closes = 1
    /\ (pipe_pc # "off" /\ dry_run) => (llm = "none" /\ closes = 0)

C10_Witness ==
    /\ pipe_pc = "raised"
    /\ pending = "Exception"
    /\ closes = 1
    /\ llm = "closed"

C10_WitnessDone ==
    /\ pipe_pc = "done"
    /\ ~dry_run
    /\ closes = 1
    /\ Len(run_samples) >= 1

----------------------------------------------------------------------------
(* Properties of collect_all *)

(* the content of a skill after trimming and lower-casing *)
Norm(skill) == Lower(Strip(skill.content))

(* what the collectors returned, in collector order *)
AllCollected == Flatten([k \in DOMAIN c_results |-> c_results[k].collected])

FirstIndex(n) == SetMin({k \in DOMAIN AllCollected : Norm(AllCollected[k]) = n})

(* C11: the list returned by collect_all holds no two skills of equal      *)
(* normalized content; every normalized content some non-failing collector *)
(* returned is there exactly once, as its first occurrence in collector    *)
(* order.                                                                  *)
C11_Deduplicated ==
    collect_pc = "returned" =>
        /\ \A a, b \in DOMAIN unique : a # b => Norm(unique[a]) # Norm(unique[b])
        /\ \A k \in DOMAIN AllCollected :
              Cardinality({m \in DOMAIN unique : Norm(unique[m]) = Norm(AllCollected[k])}) = 1
        /\ \A m \in DOMAIN unique :
              /\ \E k \in DOMAIN AllCollected : Norm(AllCollected[k]) = Norm(unique[m])
              /\ unique[m] = AllCollected[FirstIndex(Norm(unique[m]))]

C11_Witness ==
    /\ collect_pc = "returned"
    /\ \E i, j \in DOMAIN c_results : \E a \in DOMAIN c_results[i].collected :
       \E b \in DOMAIN c_results[j].collected :
          /\ i < j
          /\ c_results[i].collected[a] = SkillList[3]
          /\ c_results[j].collected[b] = SkillList[1]
    /\ \E m \in DOMAIN unique : unique[m] = SkillList[3]
    /\ \A m \in DOMAIN unique : unique[m] # SkillList[1]

(* C12: whatever collectors raise, collect_all raises nothing, a failing   *)
(* collector contributes no skill, and every skill of a non-failing        *)
(* collector is present in the result, up to deduplication.                *)
C12_CollectorIsolation ==
    /\ collect_pc # "raised"
    /\ \A i \in DOMAIN c_results : c_results[i].exc = "none"
    /\ collect_pc = "returned" =>
         \A i \in DOMAIN c_results :
            /\ c_results[i].failed => c_results[i].skills = <<>>
            /\ ~c_results[i].failed =>
                  \A k \in DOMAIN c_results[i].collected :
                     \E m \in DOMAIN unique :
                        Norm(unique[m]) = Norm(c_results[i].collected[k])

C12_Witness ==
    /\ collect_pc = "returned"
    /\ \E i, j \in DOMAIN c_results :
         /\ c_results[i].failed
         /\ ~c_results[j].failed /\ Len(c_results[j].collected) >= 2
    /\ Len(unique) >= 2

----------------------------------------------------------------------------
(* Properties of _extract_json *)
Extracted(which) == f_out[which] # Pending

(* C13: a JSON text in one fenced code block is extracted to the same      *)
(* value as the text bare, the value the text stands for; one wrapper and  *)
(* no more is stripped, so the text in two code blocks is not decoded.     *)
C13_FenceRoundTrip ==
    f_pc \in {"call", "done"} =>
        /\ Extracted("plain") => f_out.plain = [exc |-> "none", value |-> f_in.value]
        /\ Extracted("once") => f_out.once = [exc |-> "none", value |-> f_in.value]
        /\ (Extracted("plain") /\ Extracted("once")) => f_out.once = f_out.plain
        /\ Extracted("twice") => f_out.twice.exc = "JSONDecodeError"

C13_Witness ==
    /\ f_pc = "done"
    /\ f_in.layout = "lines"
    /\ f_in.value.k = "list" /\ Len(f_in.value.items) = 2
    /\ f_in.open # FENCE
    /\ f_out.once = f_out.plain
    /\ f_out.once.value = f_in.value
    /\ f_out.twice.exc = "JSONDecodeError"

----------------------------------------------------------------------------
(* Properties of QualityVerdict *)
InRange(sc) == \A k \in 1..5 : sc[k] >= 100 /\ sc[k] <= 500

Abs(x) == IF x < 0 THEN -x ELSE x

(* C14: with the five sub-scores in [1,5] the verdict exists, its overall  *)
(* is the two-decimal value nearest to their mean (at most half a          *)
(* hundredth away) and lies in [1,5]; with a sub-score outside [1,5] no    *)
(* verdict is constructed.                                                 *)
C14_OverallIsRoundedMean ==
    f_pc = "done" =>
        IF InRange(f_in)
        THEN /\ f_out.exc = "none"
             /\ 2 * Abs(5 * f_out.overall - Sum5(f_in)) <= 5
             /\ f_out.overall >= 100 /\ f_out.overall <= 500
        ELSE /\ f_out.exc = "ValidationError"
             /\ f_out.overall = None

C14_Witness ==
    /\ f_pc = "done"
    /\ InRange(f_in)
    /\ Sum5(f_in) % 5 = 3
    /\ 5 * f_out.overall > Sum5(f_in)
    /\ \E k \in 1..5 : f_in[k] = 500

----------------------------------------------------------------------------
(* Properties of SampleHeuristicFilter *)
First200(t) == SubSeq(t, 1, Min(Len(t), 200))

InstructionKey(sample) == Lower(Strip(sample.instruction))

(* the positions of the input the claim keeps: accepted, and no accepted   *)
(* sample before it has the same instruction after trimming and            *)
(* lower-casing                                                            *)
FirstAccepted(samples, fc) ==
    {k \in DOMAIN samples :
        /\ SampleAccept(samples[k], fc)
        /\ \A j \in 1..(k - 1) :
              ~(SampleAccept(samples[j], fc)
                /\ InstructionKey(samples[j]) = InstructionKey(samples[k]))}

(* C15: filter returns, in input order, the accepted samples that are the  *)
(* first of their instruction (trimmed, lower-cased); no sample returned   *)
(* holds a refusal pattern within the first 200 characters of its          *)
(* response.                                                               *)
C15_SampleFilter ==
    f_pc = "done" =>
        LET kept == Keep(1, Len(f_in.samples),
                         DOMAIN f_in.samples \ FirstAccepted(f_in.samples, f_in.config))
        IN /\ f_out = [m \in DOMAIN kept |-> f_in.samples[kept[m]]]
           /\ \A m \in DOMAIN f_out : \A pat \in f_in.config.refusal_patterns :
                 ~Contains(First200(f_out[m].response), pat)
           /\ \A a, b \in DOMAIN f_out :
                 a # b => InstructionKey(f_out[a]) # InstructionKey(f_out[b])

C15_Witness ==
    /\ f_pc = "done"
    /\ Len(f_in.samples) = 3
    /\ f_in.config.refusal_patterns = {<<"n", "o">>}
    /\ Len(f_in.samples[1].response) = 200 /\ f_in.samples[1].instruction = <<"Q", "1">>
    /\ f_in.samples[2].instruction = <<"Q", "1">>
    /\ f_in.samples[3].instruction = <<"q", "1">>
    /\ f_out = <<f_in.samples[2]>>

----------------------------------------------------------------------------
(* Properties of HeuristicFilter *)
Accepted == f_out = <<f_in.skill>>
Rejected == f_out = <<>>

(* nine characters in ten are ASCII *)
Ascii90(t) == 10 * Cardinality({k \in DOMAIN t : IsAscii(t[k])}) = 9 * Len(t)

(* C16 as claimed: with min_length = 50 and the defaults, every skill of   *)
(* 10 characters is rejected and every skill of 200 characters with a 90%  *)
(* ASCII ratio is accepted.                                                *)
C16_LengthAndAscii ==
    f_pc = "done" =>
        /\ Len(f_in.skill.content) = 10 => Rejected
        /\ (Len(f_in.skill.content) = 200 /\ Ascii90(f_in.skill.content)) => Accepted

(* C16 amended: every skill of 10 characters is rejected, and every skill  *)
(* whose content after trimming has 200 characters, a 90% ASCII ratio and  *)
(* at least 10 words is accepted.                                          *)
C16_LengthAsciiAndWords ==
    f_pc = "done" =>
        /\ Len(f_in.skill.content) = 10 => Rejected
        /\ (/\ Len(Strip(f_in.skill.content)) = 200
            /\ Ascii90(Strip(f_in.skill.content))
            /\ WordCount(Strip(f_in.skill.content)) >= 10) => Accepted

C16_Witness ==
    /\ f_pc = "done"
    /\ Len(Strip(f_in.skill.content)) = 200
    /\ Ascii90(Strip(f_in.skill.content))
    /\ WordCount(Strip(f_in.skill.content)) = 10
    /\ Accepted

C16_WitnessShort ==
    /\ f_pc = "done"
    /\ Len(f_in.skill.content) = 10
    /\ WordCount(f_in.skill.content) = 1
    /\ Rejected

----------------------------------------------------------------------------
(* Properties of the marking *)

(* the sample at position k as it was handed to filter *)
Original(k) == JudgeInput(Len(j_samples))[k]

Graded(k) == k \in to_evaluate /\ tasks[k].ok

(* C17: after filter a sample has a quality_score exactly when it was      *)
(* selected and its grading gave a verdict, and the score is that          *)
(* verdict's overall; the score of any other sample stays absent, no other *)
(* field of any sample changes, and nothing is written before filter has   *)
(* every result.                                                           *)
C17_OnlyQualityScoreWritten ==
    /\ judge_pc \in {"idle", "grading"} => j_samples = JudgeInput(Len(j_samples))
    /\ judge_pc = "returned" =>
         \A k \in DOMAIN j_samples :
            /\ j_samples[k].quality_score # None <=> Graded(k)
            /\ Graded(k) => j_samples[k].quality_score = tasks[k].verdict
            /\ [j_samples[k] EXCEPT !.quality_score = None] = Original(k)

C17_Witness ==
    /\ judge_pc = "returned"
    /\ \E k \in to_evaluate : Graded(k) /\ j_samples[k].quality_score = 360
    /\ \E k \in to_evaluate :
          /\ Graded(k) /\ j_samples[k].quality_score = 340
          /\ \A m \in DOMAIN j_ret.samples : j_ret.samples[m] # k
    /\ \E k \in to_evaluate : ~tasks[k].ok /\ j_samples[k].quality_score = None
    /\ \E k \in DOMAIN j_samples : k \notin to_evaluate /\ j_samples[k].quality_score = None

(* C19: each sample is graded by at most one task, a sample not selected  *)
(* by none; no task writes a sample, the scores being written by filter    *)
(* itself once no task is left running, so that no two tasks ever write    *)
(* the same sample.                                                        *)
C19_OneGraderPerSample ==
    /\ \A k \in DOMAIN tasks :
          /\ tasks[k].graders <= 1
          /\ tasks[k].graders = 1 <=> k \in to_evaluate
          /\ tasks[k].graders = 0 => tasks[k].st = "none"
    /\ (\E k \in DOMAIN tasks : tasks[k].st \in {"waiting", "calling"}) =>
          \A k \in DOMAIN j_samples : j_samples[k].quality_score = None

C19_Witness ==
    /\ judge_pc = "grading"
    /\ Cardinality({k \in DOMAIN tasks : tasks[k].st = "calling"}) >= 2
    /\ \E k \in DOMAIN tasks : tasks[k].st = "done" /\ tasks[k].verdict # None
    /\ \E k \in DOMAIN tasks : tasks[k].graders = 0

----------------------------------------------------------------------------
(* Properties of the aggregation *)

(* the work items already taken by the loop over as_completed *)
Collected == {i \in DOMAIN items : items[i].st = "collected"}

CollectedCount(x) == SumOver([i \in Collected |-> Count(items[i].samples, x)], Collected)

(* C20: whatever the completion order, the collection holds each sample    *)
(* of the work items collected so far as often as they hold it, and on     *)
(* return each sample of every work item; a sample carries the id of the   *)
(* skill (its content trimmed and lower-cased) and the strategy of the     *)
(* work item whose answer it was parsed from.                              *)
C20_MultisetUnion ==
    /\ synth_pc \in {"running", "returned"} =>
          \A x \in SampleValues : Count(all_samples, x) = CollectedCount(x)
    /\ synth_pc = "returned" =>
          /\ Collected = DOMAIN items
          /\ Len(all_samples) = SumOver([i \in DOMAIN items |-> Len(items[i].samples)],
                                        DOMAIN items)
    /\ \A i \in DOMAIN items : \A k \in DOMAIN items[i].samples :
          /\ items[i].samples[k].skill_id = Norm(skills[items[i].skill])
          /\ items[i].samples[k].skill_name = skills[items[i].skill].name
          /\ items[i].samples[k].strategy = items[i].strategy
          /\ items[i].strategy = cfg.strategies[((i - 1) % Len(cfg.strategies)) + 1].name

C20_Witness ==
    /\ synth_pc = "returned"
    /\ \E i, j \in DOMAIN items :
         /\ i < j
         /\ items[i].strategy # items[j].strategy
         /\ Len(items[i].samples) = 2 /\ Len(items[j].samples) = 1
         /\ all_samples[1] = items[j].samples[1]
         /\ all_samples[Len(all_samples)] = items[i].samples[2]

----------------------------------------------------------------------------
(* Properties of a hung call *)
Present(i) == i \in DOMAIN items

(* C18 as claimed: with any concurrency of at least 1 and one work item    *)
(* whose call never returns, every other work item is eventually run and   *)
(* its samples aggregated.                                                 *)
C18_OthersComplete ==
    \A i \in 1..MaxItems :
        (Present(i) /\ i \notin hung) ~> (Present(i) /\ items[i].st = "collected")

(* C18 amended: the same with a concurrency of at least 2 *)
C18_OthersCompleteFromTwo ==
    \A i \in 1..MaxItems :
        (Present(i) /\ i \notin hung /\ cfg.concurrency >= 2)
            ~> (Present(i) /\ items[i].st = "collected")

C18_Witness ==
    /\ cfg.concurrency >= 2
    /\ NumItems = 3
    /\ \E h \in hung :
         /\ items[h].st = "calling"
         /\ h = 1
         /\ \A i \in DOMAIN items \ {h} : items[i].st = "collected"
    /\ all_samples # <<>>
    /\ completed = 2

----------------------------------------------------------------------------
(* Properties of the call a work item issues *)
Called(i) == items[i].call # NoCall

Rendered(i) ==
    Format(items[i].strategy,
           Truncate(skills[items[i].skill].content, SKILL_CONTENT_MAX),
           items[i].n)

TwoMessages(i) ==
    items[i].call.messages = <<Message("system", SYSTEM_FRAMING),
                               Message("user", Rendered(i))>>

(* C21: the generate_json call of every work item carries exactly two      *)
(* messages, the fixed system framing message and then the rendered user   *)
(* message, and is issued with the temperature and with the max-token      *)
(* ceiling set in the configuration.                                       *)
C21_ConfiguredCall ==
    \A i \in DOMAIN items :
        Called(i) => /\ TwoMessages(i)
                     /\ items[i].call.temperature = cfg.temperature
                     /\ items[i].call.max_tokens = cfg.llm.max_tokens

----------------------------------------------------------------------------
(* Properties of the order of the stages of Pipeline.run *)
CallsInFlight == SynthInFlight + JudgeInFlight

(* a work item or a grading task that is waiting for a permit or calling *)
CallsToCome ==
    \/ \E i \in DOMAIN items : items[i].st \in {"waiting", "calling"}
    \/ \E k \in DOMAIN tasks : tasks[k].st \in {"waiting", "calling"}

(* a stage from the creation of the client to the judge has raised *)
StageRaised == pending \in {"ValueError", "Exception"}

(* C22: the stages of a run occur in the order collect, skill filter,      *)
(* synthesize, sample filter, judge, close, write. The synthesis runs      *)
(* after the skills are filtered and before the samples are; the judge     *)
(* runs after the samples are filtered; no call to the LLM is in flight    *)
(* or still to start when close() is invoked or afterwards; the writer is  *)
(* invoked only after close(), and never when a stage has raised; a dry    *)
(* run makes no call and writes nothing.                                   *)
C22_StageOrder ==
    /\ synth_pc # "off" =>
          /\ pipe_pc \in {"synth", "off"}
          /\ pipe_pc = "synth" => /\ stats.keys = {"raw_skills", "filtered_skills"}
                                  /\ judge_pc = "off"
                                  /\ llm = "open"
    /\ (judge_pc \in {"idle", "grading", "returned"} /\ pipe_pc # "off") =>
          /\ pipe_pc = "judge"
          /\ stats.keys = {"raw_skills", "filtered_skills", "raw_samples",
                           "filtered_samples"}
          /\ synth_pc = "off"
          /\ llm = "open"
    /\ (CallsInFlight > 0 /\ pipe_pc # "off") =>
          /\ pipe_pc \in {"synth", "judge"}
          /\ llm = "open"
          /\ closes = 0
          /\ written = 0
    /\ (pipe_pc \in {"closing", "stage6", "done", "raised"} \/ closes > 0) => ~CallsToCome
    /\ written > 0 => /\ closes = 1
                      /\ llm = "closed"
                      /\ ~StageRaised
                      /\ "final_samples" \in stats.keys
    /\ StageRaised => written = 0
    /\ (dry_run /\ pipe_pc # "off") =>
          /\ llm = "none"
          /\ written = 0
          /\ items = <<>>
          /\ tasks = <<>>
          /\ synth_pc = "off"
          /\ judge_pc = "off"
          /\ pipe_pc \in {"start", "done"}

(* a run that made calls in both stages, closed the client and wrote *)
C22_Witness ==
    /\ pipe_pc = "done"
    /\ written = 1
    /\ closes = 1
    /\ stats.raw_samples >= 1
    /\ stats.quality.evaluated >= 1

(* the judge stage raised: the client is closed, nothing is written *)
C22_WitnessRaised ==
    /\ pipe_pc = "raised"
    /\ pending = "Exception"
    /\ "filtered_samples" \in stats.keys
    /\ closes = 1
    /\ written = 0

(* a dry run that has returned *)
C22_WitnessDryRun ==
    /\ dry_run
    /\ pipe_pc = "done"
    /\ stats.filtered_skills >= 1


====
